---- MODULE Spec2Model ----
(***************************************************************************)
(* Model of the AWS Support Case Agent repository.                         *)
(*                                                                         *)
(*   Spec      one logical request through strands_agent_bedrock /         *)
(*             run_with_retry / _run_once / refresh_token                  *)
(*             (src/Agent/support_case_agent.py)                           *)
(*   SpecLive  Spec with weak fairness of the request's steps              *)
(*   SpecRole  two sequential provisioning runs of get_or_create_role      *)
(*             (src/Agent/aws_setup.py) against an external IAM role       *)
(*   SpecMcp   the same for src/MCP/aws_setup.py; SpecReconcilers: both    *)
(*   SpecRace  two concurrent provisioning runs of one deployment          *)
(*   SpecRefresh  concurrent refresh_token calls on one secret             *)
(*   SpecCognito  setup_cognito_user_pool (src/MCP/aws_setup.py)           *)
(*   SpecPolicy   the policy document builders                             *)
(*   SpecUrl      endpoint construction (Agent and src/MCP client test)    *)
(***************************************************************************)
EXTENDS Integers, Sequences, FiniteSets, TLC

\* ------------------------------------------------------------------ bounds
MaxChunks == 2      \* "data" events one attempt may produce
MaxEvents == 1      \* events without a "data" key one attempt may produce
NumTokens == 2      \* distinct access tokens the Token Issuer may hand out

\* ------------------------------------------------------- error messages
\* str(e) is modelled as a sequence of words; the substring test of
\* run_with_retry is carried out on words instead of characters.
Pattern == <<"client", "initialization", "failed">>

Msgs ==
  { <<"the", "client", "initialization", "failed">>,
    <<"Client", "Initialization", "Failed">>,
    <<"connection", "reset">>,
    <<"client", "failed", "initialization">> }

RefreshMsgs ==
  { <<"NotAuthorizedException">>,
    <<"the", "client", "initialization", "failed">> }

EntryMsg == <<"object", "has", "no", "attribute", "get">>
KeyErrorMsg == <<"bearer_token">>

\* errors of get_parameter / get_secret_value in the transport factory
BuildErrors == {<<"ParameterNotFound">>, <<"AccessDeniedException">>}
NoMsg == <<>>

LowerWord(w) ==
  CASE w = "Client" -> "client"
    [] w = "Initialization" -> "initialization"
    [] w = "Failed" -> "failed"
    [] OTHER -> w

\* faulty variant: the message is compared as it is
Lower_identity(m) == m

\* err_msg.lower()
Lower(m) == [i \in 1..Len(m) |-> LowerWord(m[i])]

Contains(m, p) ==
  \E i \in 0..(Len(m) - Len(p)) : SubSeq(m, i + 1, i + Len(p)) = p

IsCredentialExpired(m) == Contains(Lower(m), Pattern)

\* ------------------------------------------------------------ JSON bundle
\* A SecretString is a JSON object text: a sequence of <<key, value>>
\* members.  json.loads keeps the last value of a repeated key at the
\* position of its first occurrence; json.dumps writes the members in
\* insertion order.
HasKey(d, k) == \E i \in 1..Len(d) : d[i][1] = k

GetKey(d, k) == d[CHOOSE i \in 1..Len(d) : d[i][1] = k][2]

SetKey(d, k, v) ==
  IF HasKey(d, k)
    THEN [i \in 1..Len(d) |-> IF d[i][1] = k THEN <<k, v>> ELSE d[i]]
    ELSE Append(d, <<k, v>>)

JsonLoads(s) ==
  LET first == {i \in 1..Len(s) : \A j \in 1..(i - 1) : s[j][1] # s[i][1]}
      nth(n) == CHOOSE i \in first : Cardinality({j \in first : j < i}) = n - 1
      last(k) == CHOOSE i \in 1..Len(s) :
                   s[i][1] = k /\ \A j \in (i + 1)..Len(s) : s[j][1] # k
  IN  [n \in 1..Cardinality(first) |->
         <<s[nth(n)][1], s[last(s[nth(n)][1])][2]>>]

JsonDumps(d) == d

Token(i) == "tok" \o ToString(i)
Tokens == {Token(i) : i \in 1..NumTokens}
NoToken == "<none>"

SetupConfig(t) ==
  << <<"pool_id", "pool">>, <<"client_id", "cid">>, <<"bearer_token", t>>,
     <<"discovery_url", "url">>,
     <<"AuthParameters.USERNAME", "testuser">>,
     <<"AuthParameters.PASSWORD", "MyPassword123!">> >>

WithoutToken ==
  << <<"pool_id", "pool">>, <<"client_id", "cid">>,
     <<"AuthParameters.USERNAME", "testuser">>,
     <<"AuthParameters.PASSWORD", "MyPassword123!">> >>

InitialSecrets ==
  {JsonDumps(SetupConfig(Token(1))), JsonDumps(SetupConfig("")),
   JsonDumps(WithoutToken)}

\* -------------------------------------------------------------- variables
VARIABLES
  pc,           \* position of the request
  att,          \* attempt in progress (0 before the first)
  out,          \* items delivered to the caller so far
  session,      \* attempts whose MCP session is open
  secret,       \* SecretString stored under SECRET_ID
  secret_data,  \* refresh_token's parsed bundle
  attempts,     \* _run_once invocations started
  refreshes,    \* refresh_token calls started
  writes,       \* update_secret calls that succeeded
  hdr,          \* Authorization header built by each attempt
  fail,         \* message of the error each attempt raised
  rerr,         \* message of the error refresh_token raised
  rread,        \* bundle refresh_token read
  issued,       \* token the Token Issuer returned to the refresh
  events,       \* events without "data" seen by the attempt in progress
  escaped,      \* functions an exception has left as a raised fault
  secret0       \* SecretString at the start of the request

reqvars == <<pc, att, out, session, secret, secret_data, attempts, refreshes,
             writes, hdr, fail, rerr, rread, issued, events, escaped, secret0>>

VARIABLES
  role,         \* external IAM role state
  rpc,          \* position of the provisioning run
  call,         \* number of the get_or_create_role call in progress
  arn,          \* existing_arn / role['Role']['Arn'] of the call in progress
  ret,          \* result of each call
  creates,      \* create_role requests issued by each call
  exists_err,   \* calls whose create_role answered EntityAlreadyExists
  refetches,    \* get_role re-fetches issued by each call
  other,        \* progress of a racing provisioning run
  role0,        \* role state before the first call
  calllog       \* per call: answer of the lookup, put_role_policy requests

rolevars == <<role, rpc, call, arn, ret, creates, exists_err, refetches,
              other, role0, calllog>>

VARIABLES
  mrole,        \* external IAM role state seen by the MCP deployment
  mpc,          \* position of the MCP provisioning run
  mcall,        \* number of the get_or_create_role call in progress
  marn,         \* role['Role']['Arn'] of the call in progress
  mret,         \* result of each call
  mcreates,     \* create_role requests issued by each call
  mexists_err,  \* calls whose create_role answered EntityAlreadyExists
  madd,         \* _add_managed_policy_to_role call in progress
  addlog,       \* completed _add_managed_policy_to_role calls
  adds,         \* direct _add_managed_policy_to_role calls started
  mrole0,       \* role state before the first call
  mcalllog      \* per call: answer of the lookup, put_role_policy requests

mcpvars == <<mrole, mpc, mcall, marn, mret, mcreates, mexists_err, madd,
             addlog, adds, mrole0, mcalllog>>

VARIABLES
  csecret,      \* SecretString shared by concurrent requests
  csecret0,     \* SecretString before the first refresh
  rfpc,         \* position of each concurrent refresh_token call
  rfdata,       \* secret_data of each call
  rftoken,      \* token the Token Issuer returned to each call
  rflast        \* call whose update_secret was served last (0: none)

refvars == <<csecret, csecret0, rfpc, rfdata, rftoken, rflast>>

VARIABLES
  pools,        \* user pools of the account, in list_user_pools order
  kpc,          \* position of setup_cognito_user_pool
  kcall,        \* number of the setup_cognito_user_pool call in progress
  pool_id,      \* pool_id of the call in progress (0: None)
  kret          \* result of each call

cogvars == <<pools, kpc, kcall, pool_id, kret>>

VARIABLES
  doclog,       \* policy documents computed so far, with their arguments
  stored        \* inline policy document currently stored on the role

polvars == <<doclog, stored>>

VARIABLES
  agent_arn,    \* value of the SSM parameter
  uregion,      \* region of the boto session
  utoken,       \* bearer_token stored in the secret
  agent_url,    \* mcp_url built by create_streamable_http_transport
  agent_hdr,    \* its "authorization" header
  mcp_url,      \* mcp_url built by the MCP client test
  mcp_hdr       \* its "authorization" header

urlvars == <<agent_arn, uregion, utoken, agent_url, agent_hdr, mcp_url, mcp_hdr>>

VARIABLES
  xdep,         \* deployment whose get_or_create_role is run concurrently
  xrole,        \* the IAM role both runs work on
  xpc,          \* position of each concurrent run
  xlisted,      \* inline policy names listed by each run's cleanup
  xret          \* result of each run

racevars == <<xdep, xrole, xpc, xlisted, xret>>

auxvars == <<refvars, cogvars, polvars, urlvars, racevars>>

vars == <<reqvars, rolevars, mcpvars, auxvars>>

\* ------------------------------------------------------ output stream
DataItem(k, i) ==
  [kind |-> "data", att |-> k, idx |-> i, error |-> NoMsg, type |-> "data"]

ErrorItem(m, t) ==
  [kind |-> "error", att |-> 0, idx |-> 0, error |-> m, type |-> t]

Chunks(k) == Cardinality({i \in 1..Len(out) : out[i].kind = "data" /\ out[i].att = k})

Errors == {i \in 1..Len(out) : out[i].kind = "error"}

NoHeader == "<no header>"

AuthHeader(bearer_token) == "Bearer " \o bearer_token

InitFailedMsg == <<"the", "client", "initialization", "failed">>

\* What the `with` statement of _run_once raises when the transport factory
\* raised orig: the error itself or the MCP client's start-up error.
ClientStartError(orig) == {orig, InitFailedMsg}

\* ------------------------------------------------------------ the request
ReqInit ==
  /\ pc = "entry"
  /\ att = 0
  /\ out = <<>>
  /\ session = {}
  /\ secret \in InitialSecrets
  /\ secret_data = <<>>
  /\ attempts = 0
  /\ refreshes = 0
  /\ writes = 0
  /\ hdr = [k \in 1..2 |-> NoHeader]
  /\ fail = [k \in 1..2 |-> NoMsg]
  /\ rerr = NoMsg
  /\ rread = <<>>
  /\ issued = NoToken
  /\ events = 0
  /\ escaped = {}
  /\ secret0 = secret

YieldError(m, t) ==
  /\ out' = Append(out, ErrorItem(m, t))
  /\ pc' = "done"

\* strands_agent_bedrock: except Exception -> yield entrypoint_error
EntrypointExcept(m) ==
  /\ YieldError(m, "entrypoint_error")
  /\ UNCHANGED <<refreshes, escaped>>

\* faulty variant: the error item is yielded before the classification, so a
\* CredentialExpired failure is reported and then retried
OuterExcept_reports_then_retries(m) ==
  IF IsCredentialExpired(m)
    THEN /\ out' = Append(out, ErrorItem(m, "stream_error"))
         /\ pc' = "refresh_read"
         /\ refreshes' = refreshes + 1
         /\ UNCHANGED escaped
    ELSE /\ YieldError(m, "stream_error")
         /\ UNCHANGED <<refreshes, escaped>>

\* faulty variant: every failure of Attempt1 is answered by a refresh
OuterExcept_always_refresh(m) ==
  /\ pc' = "refresh_read"
  /\ refreshes' = refreshes + 1
  /\ UNCHANGED <<out, escaped>>

\* run_with_retry, outer handler: classify, then refresh or yield stream_error
OuterExcept(m) ==
  IF IsCredentialExpired(m)
    THEN /\ pc' = "refresh_read"
         /\ refreshes' = refreshes + 1
         /\ UNCHANGED <<out, escaped>>
    ELSE /\ YieldError(m, "stream_error")
         /\ UNCHANGED <<refreshes, escaped>>

\* faulty variant: the inner handler classifies and refreshes again
InnerExcept_retries(m) == OuterExcept(m)

\* faulty variant: the inner handler reports Attempt1's message err_msg
InnerExcept_first_message(m) ==
  /\ YieldError(fail[1], "stream_error")
  /\ UNCHANGED <<refreshes, escaped>>

\* run_with_retry, inner handler: except Exception as e2 -> yield stream_error
InnerExcept(m) ==
  /\ YieldError(m, "stream_error")
  /\ UNCHANGED <<refreshes, escaped>>

\* faulty variant: Attempt2 is started again, without a refresh, for as long
\* as it fails with a CredentialExpired error
AttemptRaise_reopens(m) ==
  /\ session' = {}
  /\ fail' = [fail EXCEPT ![att] = m]
  /\ IF att = 2 /\ IsCredentialExpired(m)
       THEN pc' = "open" /\ UNCHANGED <<out, refreshes, escaped>>
       ELSE IF att = 1 THEN OuterExcept(m) ELSE InnerExcept(m)

\* faulty variant: a failure after the first chunk just ends the stream
AttemptRaise_truncates(m) ==
  /\ session' = {}
  /\ fail' = [fail EXCEPT ![att] = m]
  /\ IF Chunks(att) > 0
       THEN pc' = "done" /\ UNCHANGED <<out, refreshes, escaped>>
       ELSE IF att = 1 THEN OuterExcept(m) ELSE InnerExcept(m)

\* faulty variant: the session is not scoped by `with` and stays open
AttemptRaise_keeps_session(m) ==
  /\ session' = session
  /\ fail' = [fail EXCEPT ![att] = m]
  /\ IF att = 1 THEN OuterExcept(m) ELSE InnerExcept(m)

\* an exception raised inside the `with` block of _run_once: the session is
\* released and the error reaches the handler around the attempt
AttemptRaise(m) ==
  /\ session' = {}
  /\ fail' = [fail EXCEPT ![att] = m]
  /\ IF att = 1 THEN OuterExcept(m) ELSE InnerExcept(m)

\* faulty variant: refresh_token is called outside the inner try: its error leaves
\* run_with_retry and is caught by the entrypoint
RefreshRaise_uncaught(m) ==
  /\ rerr' = m
  /\ escaped' = escaped \cup {"run_with_retry"}
  /\ YieldError(m, "entrypoint_error")
  /\ UNCHANGED refreshes

\* refresh_token: except Exception as e -> raise e, caught by the inner handler
RefreshRaise(m) ==
  /\ rerr' = m
  /\ InnerExcept(m)

StartAttempt(k) ==
  /\ pc' = "open"
  /\ att' = k
  /\ attempts' = attempts + 1
  /\ events' = 0

EntrypointOk ==
  /\ pc = "entry"
  /\ StartAttempt(1)
  /\ UNCHANGED <<out, session, secret, secret_data, refreshes, writes, hdr,
                 fail, rerr, rread, issued, escaped, secret0>>

EntrypointFails ==
  /\ pc = "entry"
  /\ EntrypointExcept(EntryMsg)
  /\ UNCHANGED <<att, session, secret, secret_data, attempts, writes, hdr,
                 fail, rerr, rread, issued, events, secret0>>

\* faulty variant: the token read for Attempt1 is cached and used again
BuildTransportOk_cached ==
  /\ pc = "open"
  /\ HasKey(JsonLoads(secret0), "bearer_token")
  /\ hdr' = [hdr EXCEPT ![att] = AuthHeader(GetKey(JsonLoads(secret0), "bearer_token"))]
  /\ pc' = "connect"
  /\ UNCHANGED <<att, out, session, secret, secret_data, attempts, refreshes,
                 writes, fail, rerr, rread, issued, events, escaped, secret0>>

\* create_streamable_http_transport, called when the MCP client starts
BuildTransportOk ==
  /\ pc = "open"
  /\ HasKey(JsonLoads(secret), "bearer_token")
  /\ hdr' = [hdr EXCEPT ![att] = AuthHeader(GetKey(JsonLoads(secret), "bearer_token"))]
  /\ pc' = "connect"
  /\ UNCHANGED <<att, out, session, secret, secret_data, attempts, refreshes,
                 writes, fail, rerr, rread, issued, events, escaped, secret0>>

BuildTransportFails ==
  /\ pc = "open"
  /\ \E orig \in BuildErrors \cup {KeyErrorMsg} :
       /\ orig = KeyErrorMsg <=> ~HasKey(JsonLoads(secret), "bearer_token")
       /\ \E m \in ClientStartError(orig) : AttemptRaise(m)
  /\ UNCHANGED <<att, secret, secret_data, attempts, writes, hdr, rerr,
                 rread, issued, events, secret0>>

ConnectOk ==
  /\ pc = "connect"
  /\ session' = session \cup {att}
  /\ pc' = "list"
  /\ UNCHANGED <<att, out, secret, secret_data, attempts, refreshes, writes,
                 hdr, fail, rerr, rread, issued, events, escaped, secret0>>

ConnectFails ==
  /\ pc = "connect"
  /\ \E m \in Msgs : AttemptRaise(m)
  /\ UNCHANGED <<att, secret, secret_data, attempts, writes, hdr, rerr,
                 rread, issued, events, secret0>>

ListToolsOk ==
  /\ pc = "list"
  /\ pc' = "stream"
  /\ UNCHANGED <<att, out, session, secret, secret_data, attempts, refreshes,
                 writes, hdr, fail, rerr, rread, issued, events, escaped,
                 secret0>>

ListToolsFails ==
  /\ pc = "list"
  /\ \E m \in Msgs : AttemptRaise(m)
  /\ UNCHANGED <<att, secret, secret_data, attempts, writes, hdr, rerr,
                 rread, issued, events, secret0>>

\* async for event in agent.stream_async: if "data" in event: yield
StreamData ==
  /\ pc = "stream"
  /\ Chunks(att) < MaxChunks
  /\ out' = Append(out, DataItem(att, Chunks(att) + 1))
  /\ UNCHANGED <<pc, att, session, secret, secret_data, attempts, refreshes,
                 writes, hdr, fail, rerr, rread, issued, events, escaped,
                 secret0>>

StreamOther ==
  /\ pc = "stream"
  /\ events < MaxEvents
  /\ events' = events + 1
  /\ UNCHANGED <<pc, att, out, session, secret, secret_data, attempts,
                 refreshes, writes, hdr, fail, rerr, rread, issued, escaped,
                 secret0>>

StreamEnd ==
  /\ pc = "stream"
  /\ session' = {}
  /\ pc' = "done"
  /\ UNCHANGED <<att, out, secret, secret_data, attempts, refreshes, writes,
                 hdr, fail, rerr, rread, issued, events, escaped, secret0>>

StreamFails ==
  /\ pc = "stream"
  /\ \E m \in Msgs : AttemptRaise(m)
  /\ UNCHANGED <<att, secret, secret_data, attempts, writes, hdr, rerr,
                 rread, issued, events, secret0>>

\* faulty variant: the handlers catch BaseException, so the consumer's
\* departure is handled like a failure of the attempt
Abandon_keeps_session ==
  /\ pc \in {"entry", "stream"}
  /\ pc' = "abandoned"
  /\ UNCHANGED <<att, out, session, secret, secret_data, attempts, refreshes,
                 writes, hdr, fail, rerr, rread, issued, events, escaped,
                 secret0>>

\* the consumer stops iterating: GeneratorExit is not an Exception
Abandon ==
  /\ pc \in {"entry", "stream"}
  /\ pc' = "abandoned"
  /\ session' = {}
  /\ UNCHANGED <<att, out, secret, secret_data, attempts, refreshes, writes,
                 hdr, fail, rerr, rread, issued, events, escaped, secret0>>

\* refresh_token: get_secret_value + json.loads
RefreshReadOk ==
  /\ pc = "refresh_read"
  /\ secret_data' = JsonLoads(secret)
  /\ rread' = JsonLoads(secret)
  /\ pc' = "refresh_auth"
  /\ UNCHANGED <<att, out, session, secret, attempts, refreshes, writes, hdr,
                 fail, rerr, issued, events, escaped, secret0>>

RefreshReadFails ==
  /\ pc = "refresh_read"
  /\ \E m \in RefreshMsgs : RefreshRaise(m)
  /\ UNCHANGED <<att, session, secret, secret_data, attempts, writes, hdr,
                 fail, rread, issued, events, secret0>>

\* refresh_token: initiate_auth, secret_data['bearer_token'] = AccessToken
RefreshAuthOk ==
  /\ pc = "refresh_auth"
  /\ \E t \in Tokens :
       /\ issued' = t
       /\ secret_data' = SetKey(secret_data, "bearer_token", t)
  /\ pc' = "refresh_write"
  /\ UNCHANGED <<att, out, session, secret, attempts, refreshes, writes, hdr,
                 fail, rerr, rread, events, escaped, secret0>>

RefreshAuthFails ==
  /\ pc = "refresh_auth"
  /\ \E m \in RefreshMsgs : RefreshRaise(m)
  /\ UNCHANGED <<att, session, secret, secret_data, attempts, writes, hdr,
                 fail, rread, issued, events, secret0>>

\* faulty variant: only the new token is written back
RefreshWriteOk_token_only ==
  /\ pc = "refresh_write"
  /\ secret' = JsonDumps(<< <<"bearer_token", issued>> >>)
  /\ writes' = writes + 1
  /\ StartAttempt(2)
  /\ UNCHANGED <<out, session, secret_data, refreshes, hdr, fail, rerr,
                 rread, issued, escaped, secret0>>

\* refresh_token: update_secret(json.dumps(secret_data)); then Attempt2
RefreshWriteOk ==
  /\ pc = "refresh_write"
  /\ secret' = JsonDumps(secret_data)
  /\ writes' = writes + 1
  /\ StartAttempt(2)
  /\ UNCHANGED <<out, session, secret_data, refreshes, hdr, fail, rerr,
                 rread, issued, escaped, secret0>>

RefreshWriteFails ==
  /\ pc = "refresh_write"
  /\ \E m \in RefreshMsgs : RefreshRaise(m)
  /\ UNCHANGED <<att, session, secret, secret_data, attempts, writes, hdr,
                 fail, rread, issued, events, secret0>>

ReqNext ==
  \/ EntrypointOk \/ EntrypointFails
  \/ BuildTransportOk \/ BuildTransportFails
  \/ ConnectOk \/ ConnectFails
  \/ ListToolsOk \/ ListToolsFails
  \/ StreamData \/ StreamOther \/ StreamEnd \/ StreamFails
  \/ Abandon
  \/ RefreshReadOk \/ RefreshReadFails
  \/ RefreshAuthOk \/ RefreshAuthFails
  \/ RefreshWriteOk \/ RefreshWriteFails

\* ------------------------------------------------ the role reconciler
MaxCalls == 2       \* get_or_create_role calls made in sequence

REGION == "us-east-1"
ACCOUNT_ID == "123456789012"
AGENT_NAME == "awssupportcaseagent"
POLICY_NAME == "AgentExecutionPolicy"

RoleName(agent_name) == "agentcore-" \o agent_name \o "-role"

PolicyName(agent_name) == POLICY_NAME \o "-" \o agent_name

OperatorPolicyName == "OperatorPolicy"

PolicyNames == {PolicyName(AGENT_NAME), OperatorPolicyName}

\* faulty variant: the document stored on the role is patched
GetRolePolicy_patches(region, account_id, agent_name) ==
  [Version |-> "2012-10-17",
   Statement |-> stored.Statement \o <<"ECRImageAccess", "BedrockModelInvocation">>]

\* _get_role_policy: the statements are listed by Sid ("" where the source
\* gives none); every Resource is "*", no argument is used
GetRolePolicy(region, account_id, agent_name) ==
  [Version |-> "2012-10-17",
   Statement |-> <<"ECRImageAccess", "SecretsManagerAccess",
                   "SSMParameterAccess", "SupportAPIAccess", "", "", "",
                   "BedrockAgentCoreRuntime",
                   "BedrockAgentCoreMemoryCreateMemory",
                   "BedrockAgentCoreMemory",
                   "BedrockAgentCoreIdentityGetResourceApiKey",
                   "BedrockAgentCoreIdentityGetResourceOauth2Token",
                   "BedrockAgentCoreIdentityGetWorkloadAccessToken",
                   "BedrockModelInvocation">>]

GetAssumeRolePolicy(region, account_id) ==
  [Version |-> "2012-10-17",
   Service |-> "bedrock-agentcore.amazonaws.com",
   Action |-> "sts:AssumeRole",
   SourceAccount |-> account_id,
   SourceArn |-> "arn:aws:bedrock-agentcore:" \o region \o ":" \o account_id \o ":*"]

NoDoc == [Version |-> "", Statement |-> <<>>]

EditedDoc == [Version |-> "2012-10-17", Statement |-> <<"OperatorEdit">>]

NoAssume ==
  [Version |-> "", Service |-> "", Action |-> "", SourceAccount |-> "",
   SourceArn |-> ""]

EditedAssume ==
  [Version |-> "2012-10-17", Service |-> "ec2.amazonaws.com",
   Action |-> "sts:AssumeRole", SourceAccount |-> "", SourceArn |-> ""]

\* Arn of a role of the account: arn:aws:iam::<account>:role<path><name>
RoleArn(path, role_name) ==
  "arn:aws:iam::" \o ACCOUNT_ID \o ":role" \o path \o role_name

NoArn == ""

AbsentRole ==
  [exists |-> FALSE, arn |-> NoArn, assume |-> NoAssume,
   inline |-> [n \in PolicyNames |-> NoDoc]]

InitialRoles ==
  {AbsentRole} \cup
  { [exists |-> TRUE, arn |-> RoleArn(p, RoleName(AGENT_NAME)), assume |-> a,
     inline |-> [n \in PolicyNames |->
                   IF n = OperatorPolicyName THEN o ELSE d]] :
      p \in {"/", "/team/"},
      a \in {GetAssumeRolePolicy(REGION, ACCOUNT_ID), EditedAssume},
      d \in {NoDoc, EditedDoc, GetRolePolicy(REGION, ACCOUNT_ID, AGENT_NAME)},
      o \in {NoDoc, EditedDoc} }

NoResult == [status |-> "none", value |-> ""]

NoCallLog == [lookup |-> "", puts |-> 0]

\* ClientError codes get_role may answer besides NoSuchEntity
LookupErrors == {"AccessDenied", "Throttling"}

RoleInit ==
  /\ role \in InitialRoles
  /\ rpc = "idle"
  /\ call = 0
  /\ arn = NoArn
  /\ ret = [c \in 1..(MaxCalls + 1) |-> NoResult]
  /\ creates = [c \in 1..(MaxCalls + 1) |-> 0]
  /\ exists_err = {}
  /\ refetches = [c \in 1..(MaxCalls + 1) |-> 0]
  /\ other = "none"
  /\ role0 = role
  /\ calllog = [c \in 1..(MaxCalls + 1) |-> NoCallLog]

\* the call returns value
Return(value) ==
  /\ ret' = [ret EXCEPT ![call] = [status |-> "ok", value |-> value]]
  /\ rpc' = "idle"

\* a ClientError leaves get_or_create_role
RaiseClientError(code) ==
  /\ ret' = [ret EXCEPT ![call] = [status |-> "error", value |-> code]]
  /\ rpc' = "idle"

\* put_role_policy: create or replace the inline policy policy_name
PutRolePolicy(r, policy_name, document) ==
  [r EXCEPT !.inline = [r.inline EXCEPT ![policy_name] = document]]

\* create_role: a new role with the given trust policy and no inline policy
CreateRole(role_name, assume_role_policy) ==
  [exists |-> TRUE, arn |-> RoleArn("/", role_name),
   assume |-> assume_role_policy,
   inline |-> [n \in PolicyNames |-> NoDoc]]

GetOrCreateRole ==
  /\ rpc = "idle"
  /\ call < MaxCalls
  /\ call' = call + 1
  /\ rpc' = "lookup"
  /\ arn' = NoArn
  /\ UNCHANGED <<role, ret, creates, exists_err, refetches, other, role0, calllog>>

\* get_existing_role_arn: get_role answers
LookupFound ==
  /\ rpc = "lookup"
  /\ role.exists
  /\ arn' = role.arn
  /\ rpc' = "ensure"
  /\ UNCHANGED <<role, call, ret, creates, exists_err, refetches, other, role0>>
  /\ calllog' = [calllog EXCEPT ![call].lookup = "found"]

\* get_existing_role_arn: NoSuchEntity -> None
LookupNotFound ==
  /\ rpc = "lookup"
  /\ ~role.exists
  /\ rpc' = "create"
  /\ UNCHANGED <<role, call, arn, ret, creates, exists_err, refetches, other,
                 role0>>
  /\ calllog' = [calllog EXCEPT ![call].lookup = "NoSuchEntity"]

\* faulty variant: every ClientError of the lookup is taken for "no role"
LookupFails_as_absent ==
  /\ rpc = "lookup"
  /\ \E code \in LookupErrors :
       calllog' = [calllog EXCEPT ![call].lookup = code]
  /\ rpc' = "create"
  /\ UNCHANGED <<role, call, arn, ret, creates, exists_err, refetches, other,
                 role0>>

\* get_existing_role_arn: any other ClientError is re-raised
LookupFails ==
  /\ rpc = "lookup"
  /\ \E code \in LookupErrors :
       /\ calllog' = [calllog EXCEPT ![call].lookup = code]
       /\ RaiseClientError(code)
  /\ UNCHANGED <<role, call, arn, creates, exists_err, refetches, other, role0>>

\* ensure_role_policy_updated, then return existing_arn
EnsurePolicyOk ==
  /\ rpc = "ensure"
  /\ role' = PutRolePolicy(role, PolicyName(AGENT_NAME),
                 JsonDumps(GetRolePolicy(REGION, ACCOUNT_ID, AGENT_NAME)))
  /\ Return(arn)
  /\ UNCHANGED <<call, arn, creates, exists_err, refetches, other, role0>>
  /\ calllog' = [calllog EXCEPT ![call].puts = @ + 1]

EnsurePolicyFails ==
  /\ rpc = "ensure"
  /\ RaiseClientError("AccessDenied")
  /\ UNCHANGED <<role, call, arn, creates, exists_err, refetches, other, role0>>
  /\ calllog' = [calllog EXCEPT ![call].puts = @ + 1]

\* create_agentcore_role: create_role succeeds
CreateRoleOk ==
  /\ rpc = "create"
  /\ ~role.exists
  /\ role' = CreateRole(RoleName(AGENT_NAME),
                 JsonDumps(GetAssumeRolePolicy(REGION, ACCOUNT_ID)))
  /\ arn' = role'.arn
  /\ creates' = [creates EXCEPT ![call] = @ + 1]
  /\ rpc' = "put"
  /\ UNCHANGED <<call, ret, exists_err, refetches, other, role0, calllog>>

\* faulty variant: EntityAlreadyExists is re-raised like any other ClientError
CreateRoleExists_raises ==
  /\ rpc = "create"
  /\ role.exists
  /\ creates' = [creates EXCEPT ![call] = @ + 1]
  /\ exists_err' = exists_err \cup {call}
  /\ RaiseClientError("EntityAlreadyExists")
  /\ UNCHANGED <<role, call, arn, refetches, other, role0, calllog>>

\* create_agentcore_role: create_role answers EntityAlreadyExists
CreateRoleExists ==
  /\ rpc = "create"
  /\ role.exists
  /\ creates' = [creates EXCEPT ![call] = @ + 1]
  /\ exists_err' = exists_err \cup {call}
  /\ rpc' = "refetch"
  /\ UNCHANGED <<role, call, arn, ret, refetches, other, role0, calllog>>

\* create_agentcore_role: create_role answers another ClientError
CreateRoleFails ==
  /\ rpc = "create"
  /\ creates' = [creates EXCEPT ![call] = @ + 1]
  /\ RaiseClientError("AccessDenied")
  /\ UNCHANGED <<role, call, arn, exists_err, refetches, other, role0, calllog>>

\* create_agentcore_role: put_role_policy after the wait, return role
PutPolicyOk ==
  /\ rpc = "put"
  /\ role' = PutRolePolicy(role, PolicyName(AGENT_NAME),
                 JsonDumps(GetRolePolicy(REGION, ACCOUNT_ID, AGENT_NAME)))
  /\ Return(arn)
  /\ UNCHANGED <<call, arn, creates, exists_err, refetches, other, role0>>
  /\ calllog' = [calllog EXCEPT ![call].puts = @ + 1]

PutPolicyFails ==
  /\ rpc = "put"
  /\ RaiseClientError("AccessDenied")
  /\ UNCHANGED <<role, call, arn, creates, exists_err, refetches, other, role0>>
  /\ calllog' = [calllog EXCEPT ![call].puts = @ + 1]

\* create_agentcore_role: EntityAlreadyExists -> get_role, return response
RefetchOk ==
  /\ rpc = "refetch"
  /\ refetches' = [refetches EXCEPT ![call] = @ + 1]
  /\ arn' = role.arn
  /\ Return(role.arn)
  /\ UNCHANGED <<role, call, creates, exists_err, other, role0, calllog>>

\* another provisioning run creates the role between lookup and create_role
OtherRunCreates ==
  /\ rpc = "create"
  /\ ~role.exists
  /\ other = "none"
  /\ role' = CreateRole(RoleName(AGENT_NAME),
                 JsonDumps(GetAssumeRolePolicy(REGION, ACCOUNT_ID)))
  /\ other' = "created"
  /\ UNCHANGED <<rpc, call, arn, ret, creates, exists_err, refetches, role0, calllog>>

\* ... and later writes its inline policy
OtherRunPuts ==
  /\ other = "created"
  /\ role' = PutRolePolicy(role, PolicyName(AGENT_NAME),
                 JsonDumps(GetRolePolicy(REGION, ACCOUNT_ID, AGENT_NAME)))
  /\ other' = "done"
  /\ UNCHANGED <<rpc, call, arn, ret, creates, exists_err, refetches, role0, calllog>>

RoleNext ==
  \/ GetOrCreateRole
  \/ LookupFound \/ LookupNotFound \/ LookupFails
  \/ EnsurePolicyOk \/ EnsurePolicyFails
  \/ CreateRoleOk \/ CreateRoleExists \/ CreateRoleFails
  \/ PutPolicyOk \/ PutPolicyFails
  \/ RefetchOk
  \/ OtherRunCreates \/ OtherRunPuts

\* ------------------------------------ the role reconciler, MCP deployment
MaxAdds == 2        \* direct _add_managed_policy_to_role calls

MCP_AGENT_NAME == "awssupportmcpserver"
MCP_POLICY_NAME == "AgentCorePolicy"
AWS_SUPPORT_ACCESS_MANAGED_POLICY_ARN == "arn:aws:iam::aws:policy/AWSSupportAccess"
OtherManagedPolicyArn == "arn:aws:iam::aws:policy/ReadOnlyAccess"

ManagedPolicies == {AWS_SUPPORT_ACCESS_MANAGED_POLICY_ARN, OtherManagedPolicyArn}

McpPolicyNames == {MCP_POLICY_NAME, OperatorPolicyName}

\* _get_role_policy of the MCP deployment: one entry per statement, the Sid
\* ("" where the source gives none) and the first Resource
McpGetRolePolicy(region, account_id, agent_name) ==
  [Version |-> "2012-10-17",
   Statement |->
     <<"BedrockPermissions *",
       "ECRImageAccess arn:aws:ecr:" \o region \o ":" \o account_id \o ":repository/*",
       " arn:aws:logs:" \o region \o ":" \o account_id
           \o ":log-group:/aws/bedrock-agentcore/runtimes/*",
       " arn:aws:logs:" \o region \o ":" \o account_id \o ":log-group:*",
       " arn:aws:logs:" \o region \o ":" \o account_id
           \o ":log-group:/aws/bedrock-agentcore/runtimes/*:log-stream:*",
       "ECRTokenAccess *", " *", " *",
       "GetAgentAccessToken arn:aws:bedrock-agentcore:" \o region \o ":"
           \o account_id \o ":workload-identity-directory/default/workload-identity/"
           \o agent_name \o "-*">>]

\* _get_assume_role_policy of the MCP deployment (it adds a Sid)
McpGetAssumeRolePolicy(region, account_id) ==
  [Version |-> "2012-10-17",
   Service |-> "bedrock-agentcore.amazonaws.com",
   Action |-> "sts:AssumeRole AssumeRolePolicy",
   SourceAccount |-> account_id,
   SourceArn |-> "arn:aws:bedrock-agentcore:" \o region \o ":" \o account_id \o ":*"]

McpDesiredPolicy == JsonDumps(McpGetRolePolicy(REGION, ACCOUNT_ID, MCP_AGENT_NAME))

McpAbsentRole ==
  [exists |-> FALSE, arn |-> NoArn, assume |-> NoAssume,
   inline |-> [n \in McpPolicyNames |-> NoDoc], attached |-> {}]

McpInitialRoles ==
  {McpAbsentRole} \cup
  { [exists |-> TRUE, arn |-> RoleArn("/", RoleName(MCP_AGENT_NAME)),
     assume |-> JsonDumps(McpGetAssumeRolePolicy(REGION, ACCOUNT_ID)),
     inline |-> [n \in McpPolicyNames |->
                   IF n = OperatorPolicyName THEN o ELSE d],
     attached |-> a] :
      d \in {NoDoc, EditedDoc, McpDesiredPolicy},
      o \in {NoDoc, EditedDoc},
      a \in SUBSET ManagedPolicies }

NoAdd == [policy |-> "", caller |-> "", before |-> {}]

McpInit ==
  /\ mrole \in McpInitialRoles
  /\ mpc = "idle"
  /\ mcall = 0
  /\ marn = NoArn
  /\ mret = [c \in 1..(MaxCalls + 1) |-> NoResult]
  /\ mcreates = [c \in 1..(MaxCalls + 1) |-> 0]
  /\ mexists_err = {}
  /\ madd = NoAdd
  /\ addlog = <<>>
  /\ adds = 0
  /\ mrole0 = mrole
  /\ mcalllog = [c \in 1..(MaxCalls + 1) |-> NoCallLog]

McpReturn(value) ==
  /\ mret' = [mret EXCEPT ![mcall] = [status |-> "ok", value |-> value]]
  /\ mpc' = "idle"

\* an exception leaves get_or_create_role
McpRaise(code) ==
  /\ mret' = [mret EXCEPT ![mcall] = [status |-> "error", value |-> code]]
  /\ mpc' = "idle"

\* create_role: a new role with the given trust policy, nothing attached
McpCreateRole(role_name, assume_role_policy) ==
  [exists |-> TRUE, arn |-> RoleArn("/", role_name),
   assume |-> assume_role_policy,
   inline |-> [n \in McpPolicyNames |-> NoDoc], attached |-> {}]

McpGetOrCreateRole ==
  /\ mpc = "idle"
  /\ mcall < MaxCalls
  /\ mcall' = mcall + 1
  /\ mpc' = "lookup"
  /\ marn' = NoArn
  /\ UNCHANGED <<mrole, mret, mcreates, mexists_err, madd, addlog, adds, mrole0, mcalllog>>

\* get_existing_role_arn found the role: get_or_create_role returns its Arn
McpLookupFound ==
  /\ mpc = "lookup"
  /\ mrole.exists
  /\ marn' = mrole.arn
  /\ McpReturn(mrole.arn)
  /\ UNCHANGED <<mrole, mcall, mcreates, mexists_err, madd, addlog, adds, mrole0>>
  /\ mcalllog' = [mcalllog EXCEPT ![mcall].lookup = "found"]

\* get_existing_role_arn: NoSuchEntityException -> None
McpLookupNotFound ==
  /\ mpc = "lookup"
  /\ ~mrole.exists
  /\ mpc' = "create"
  /\ UNCHANGED <<mrole, mcall, marn, mret, mcreates, mexists_err, madd, addlog,
                 adds, mrole0>>
  /\ mcalllog' = [mcalllog EXCEPT ![mcall].lookup = "NoSuchEntity"]

\* get_existing_role_arn: any other exception is not caught
McpLookupFails ==
  /\ mpc = "lookup"
  /\ \E code \in LookupErrors :
       /\ mcalllog' = [mcalllog EXCEPT ![mcall].lookup = code]
       /\ McpRaise(code)
  /\ UNCHANGED <<mrole, mcall, marn, mcreates, mexists_err, madd, addlog, adds,
                 mrole0>>

\* create_agentcore_role: create_role succeeds, then the wait
McpCreateRoleOk ==
  /\ mpc = "create"
  /\ ~mrole.exists
  /\ mrole' = McpCreateRole(RoleName(MCP_AGENT_NAME),
                  JsonDumps(McpGetAssumeRolePolicy(REGION, ACCOUNT_ID)))
  /\ marn' = mrole'.arn
  /\ mcreates' = [mcreates EXCEPT ![mcall] = @ + 1]
  /\ mpc' = "put"
  /\ UNCHANGED <<mcall, mret, mexists_err, madd, addlog, adds, mrole0, mcalllog>>

\* create_agentcore_role: EntityAlreadyExistsException -> _cleanup_existing_role
McpCreateRoleExists ==
  /\ mpc = "create"
  /\ mrole.exists
  /\ mcreates' = [mcreates EXCEPT ![mcall] = @ + 1]
  /\ mexists_err' = mexists_err \cup {mcall}
  /\ mpc' = "cleanup"
  /\ UNCHANGED <<mrole, mcall, marn, mret, madd, addlog, adds, mrole0, mcalllog>>

\* create_agentcore_role: create_role raises another exception
McpCreateRoleFails ==
  /\ mpc = "create"
  /\ mcreates' = [mcreates EXCEPT ![mcall] = @ + 1]
  /\ McpRaise("AccessDenied")
  /\ UNCHANGED <<mrole, mcall, marn, mexists_err, madd, addlog, adds, mrole0, mcalllog>>

\* _cleanup_existing_role: list_role_policies, delete_role_policy for each
McpCleanupPolicies ==
  /\ mpc = "cleanup"
  /\ mrole' = [mrole EXCEPT !.inline = [n \in McpPolicyNames |-> NoDoc]]
  /\ mpc' = "delete_role"
  /\ UNCHANGED <<mcall, marn, mret, mcreates, mexists_err, madd, addlog, adds,
                 mrole0, mcalllog>>

\* _cleanup_existing_role: delete_role of a role with nothing attached
McpDeleteRoleOk ==
  /\ mpc = "delete_role"
  /\ mrole.attached = {}
  /\ mrole' = McpAbsentRole
  /\ mpc' = "recreate"
  /\ UNCHANGED <<mcall, marn, mret, mcreates, mexists_err, madd, addlog, adds,
                 mrole0, mcalllog>>

\* _cleanup_existing_role: delete_role refuses a role that still has managed
\* policies attached (DeleteConflict); nothing catches it
McpDeleteRoleConflict ==
  /\ mpc = "delete_role"
  /\ mrole.attached # {}
  /\ McpRaise("DeleteConflict")
  /\ UNCHANGED <<mrole, mcall, marn, mcreates, mexists_err, madd, addlog, adds,
                 mrole0, mcalllog>>

\* create_agentcore_role: the second create_role, after the cleanup
McpRecreateRole ==
  /\ mpc = "recreate"
  /\ ~mrole.exists
  /\ mrole' = McpCreateRole(RoleName(MCP_AGENT_NAME),
                  JsonDumps(McpGetAssumeRolePolicy(REGION, ACCOUNT_ID)))
  /\ marn' = mrole'.arn
  /\ mcreates' = [mcreates EXCEPT ![mcall] = @ + 1]
  /\ mpc' = "put"
  /\ UNCHANGED <<mcall, mret, mexists_err, madd, addlog, adds, mrole0, mcalllog>>

\* create_agentcore_role: put_role_policy, then _add_managed_policy_to_role
McpPutPolicyOk ==
  /\ mpc = "put"
  /\ mrole' = [mrole EXCEPT !.inline[MCP_POLICY_NAME] = McpDesiredPolicy]
  /\ madd' = [policy |-> AWS_SUPPORT_ACCESS_MANAGED_POLICY_ARN,
              caller |-> "create", before |-> mrole.attached]
  /\ mpc' = "add_list"
  /\ UNCHANGED <<mcall, marn, mret, mcreates, mexists_err, addlog, adds, mrole0>>
  /\ mcalllog' = [mcalllog EXCEPT ![mcall].puts = @ + 1]

McpPutPolicyFails ==
  /\ mpc = "put"
  /\ McpRaise("AccessDenied")
  /\ UNCHANGED <<mrole, mcall, marn, mcreates, mexists_err, madd, addlog, adds,
                 mrole0>>
  /\ mcalllog' = [mcalllog EXCEPT ![mcall].puts = @ + 1]

\* _add_managed_policy_to_role called on its own for an existing role
DirectAdd ==
  /\ mpc = "idle"
  /\ mrole.exists
  /\ adds < MaxAdds
  /\ adds' = adds + 1
  /\ \E p \in ManagedPolicies :
       madd' = [policy |-> p, caller |-> "direct", before |-> mrole.attached]
  /\ mpc' = "add_list"
  /\ UNCHANGED <<mrole, mcall, marn, mret, mcreates, mexists_err, addlog, mrole0, mcalllog>>

\* _add_managed_policy_to_role returns to its caller
AddDone(attach_issued) ==
  /\ addlog' = Append(addlog, [policy |-> madd.policy, before |-> madd.before,
                                after |-> mrole'.attached, issued |-> attach_issued])
  /\ madd' = NoAdd
  /\ IF madd.caller = "create"
       THEN McpReturn(marn)
       ELSE mpc' = "idle" /\ UNCHANGED mret

\* faulty variant: attach_role_policy is issued without looking at the list
AddAlreadyAttached_attaches ==
  /\ mpc = "add_list"
  /\ madd.policy \in mrole.attached
  /\ mrole' = [mrole EXCEPT !.attached = @ \cup {madd.policy}]
  /\ AddDone(TRUE)
  /\ UNCHANGED <<mcall, marn, mcreates, mexists_err, adds, mrole0, mcalllog>>

\* _add_managed_policy_to_role: the policy is in the listed set -> return None
AddAlreadyAttached ==
  /\ mpc = "add_list"
  /\ madd.policy \in mrole.attached
  /\ mrole' = mrole
  /\ AddDone(FALSE)
  /\ UNCHANGED <<mcall, marn, mcreates, mexists_err, adds, mrole0, mcalllog>>

\* _add_managed_policy_to_role: not in the list -> attach_role_policy
AddAttach ==
  /\ mpc = "add_list"
  /\ madd.policy \notin mrole.attached
  /\ mrole' = [mrole EXCEPT !.attached = @ \cup {madd.policy}]
  /\ AddDone(TRUE)
  /\ UNCHANGED <<mcall, marn, mcreates, mexists_err, adds, mrole0, mcalllog>>

\* _add_managed_policy_to_role: except Exception -> print, raise
AddFails ==
  /\ mpc = "add_list"
  /\ madd' = NoAdd
  /\ IF madd.caller = "create"
       THEN McpRaise("AccessDenied")
       ELSE mpc' = "idle" /\ UNCHANGED mret
  /\ UNCHANGED <<mrole, mcall, marn, mcreates, mexists_err, addlog, adds, mrole0, mcalllog>>

\* another provisioning run creates the role between lookup and create_role
\* and has got as far as stage when create_role is answered
McpOtherRunCreates ==
  /\ mpc = "create"
  /\ ~mrole.exists
  /\ mexists_err = {}
  /\ \E stage \in {"created", "put", "attached"} :
       mrole' = [McpCreateRole(RoleName(MCP_AGENT_NAME),
                    JsonDumps(McpGetAssumeRolePolicy(REGION, ACCOUNT_ID)))
                 EXCEPT !.inline[MCP_POLICY_NAME] =
                          IF stage = "created" THEN NoDoc ELSE McpDesiredPolicy,
                        !.attached =
                          IF stage = "attached"
                            THEN {AWS_SUPPORT_ACCESS_MANAGED_POLICY_ARN} ELSE {}]
  /\ UNCHANGED <<mpc, mcall, marn, mret, mcreates, mexists_err, madd, addlog,
                 adds, mrole0, mcalllog>>

McpNext ==
  \/ McpGetOrCreateRole
  \/ McpLookupFound \/ McpLookupNotFound \/ McpLookupFails
  \/ McpCreateRoleOk \/ McpCreateRoleExists \/ McpCreateRoleFails
  \/ McpCleanupPolicies \/ McpDeleteRoleOk \/ McpDeleteRoleConflict
  \/ McpRecreateRole
  \/ McpPutPolicyOk \/ McpPutPolicyFails
  \/ DirectAdd \/ AddAlreadyAttached \/ AddAttach \/ AddFails
  \/ McpOtherRunCreates

McpIdle ==
  /\ mrole = McpAbsentRole
  /\ mpc = "off"
  /\ mcall = 0
  /\ marn = NoArn
  /\ mret = [c \in 1..(MaxCalls + 1) |-> NoResult]
  /\ mcreates = [c \in 1..(MaxCalls + 1) |-> 0]
  /\ mexists_err = {}
  /\ madd = NoAdd
  /\ addlog = <<>>
  /\ adds = 0
  /\ mrole0 = mrole
  /\ mcalllog = [c \in 1..(MaxCalls + 1) |-> NoCallLog]

\* ------------------------------------- concurrent refresh_token calls
NumRefreshers == 2  \* requests refreshing the same secret at the same time

Refreshers == 1..NumRefreshers

RefInit ==
  /\ csecret \in InitialSecrets
  /\ csecret0 = csecret
  /\ rfpc = [p \in Refreshers |-> "read"]
  /\ rfdata = [p \in Refreshers |-> <<>>]
  /\ rftoken = [p \in Refreshers |-> NoToken]
  /\ rflast = 0

\* refresh_token: get_secret_value + json.loads
GetSecretValue(p) ==
  /\ rfpc[p] = "read"
  /\ rfdata' = [rfdata EXCEPT ![p] = JsonLoads(csecret)]
  /\ rfpc' = [rfpc EXCEPT ![p] = "auth"]
  /\ UNCHANGED <<csecret, csecret0, rftoken, rflast>>

\* refresh_token: initiate_auth, secret_data['bearer_token'] = AccessToken
InitiateAuth(p) ==
  /\ rfpc[p] = "auth"
  /\ \E t \in Tokens :
       /\ rftoken' = [rftoken EXCEPT ![p] = t]
       /\ rfdata' = [rfdata EXCEPT ![p] = SetKey(@, "bearer_token", t)]
  /\ rfpc' = [rfpc EXCEPT ![p] = "write"]
  /\ UNCHANGED <<csecret, csecret0, rflast>>

\* faulty variant: the bundle written back is rebuilt from the new token
UpdateSecret_token_only(p) ==
  /\ rfpc[p] = "write"
  /\ csecret' = JsonDumps(<< <<"bearer_token", rftoken[p]>> >>)
  /\ rflast' = p
  /\ rfpc' = [rfpc EXCEPT ![p] = "done"]
  /\ UNCHANGED <<csecret0, rfdata, rftoken>>

\* refresh_token: update_secret(json.dumps(secret_data)), no lock taken
UpdateSecret(p) ==
  /\ rfpc[p] = "write"
  /\ csecret' = JsonDumps(rfdata[p])
  /\ rflast' = p
  /\ rfpc' = [rfpc EXCEPT ![p] = "done"]
  /\ UNCHANGED <<csecret0, rfdata, rftoken>>

\* refresh_token: any of the three calls raises; except -> raise e
RefreshCallFails(p) ==
  /\ rfpc[p] \in {"read", "auth", "write"}
  /\ rfpc' = [rfpc EXCEPT ![p] = "failed"]
  /\ UNCHANGED <<csecret, csecret0, rfdata, rftoken, rflast>>

RefNext ==
  \E p \in Refreshers :
    \/ GetSecretValue(p)
    \/ InitiateAuth(p)
    \/ UpdateSecret(p)
    \/ RefreshCallFails(p)

RefIdle ==
  /\ csecret = JsonDumps(SetupConfig(Token(1)))
  /\ csecret0 = csecret
  /\ rfpc = [p \in Refreshers |-> "off"]
  /\ rfdata = [p \in Refreshers |-> <<>>]
  /\ rftoken = [p \in Refreshers |-> NoToken]
  /\ rflast = 0

\* ------------------------------------------- setup_cognito_user_pool
MaxSetups == 2      \* setup_cognito_user_pool calls made in sequence

POOL_NAME == "AWS-Support-MCPServerPool"
CLIENT_NAME == "AWS-Support-MCP-Server-PoolClient"

\* a user pool: its name, whether it has an app client named CLIENT_NAME,
\* and the state of the user USERNAME
Pool(name, client, user) == [name |-> name, client |-> client, user |-> user]

InitialPools ==
  { <<>>,
    << Pool("OtherPool", FALSE, "none") >>,
    << Pool(POOL_NAME, TRUE, "permanent") >>,
    << Pool("OtherPool", FALSE, "none"), Pool(POOL_NAME, TRUE, "permanent") >> }

\* what a call returned: the config dictionary or None
NoConfig(status) == [status |-> status, pool_id |-> 0, bearer_token |-> NoToken]

CogInit ==
  /\ pools \in InitialPools
  /\ kpc = "idle"
  /\ kcall = 0
  /\ pool_id = 0
  /\ kret = [c \in 1..(MaxSetups + 1) |-> NoConfig("none")]

\* pools _find_existing_pool accepts: named POOL_NAME with a client named
\* CLIENT_NAME
Matching == {i \in 1..Len(pools) : pools[i].name = POOL_NAME /\ pools[i].client}

SetupCognitoUserPool ==
  /\ kpc = "idle"
  /\ kcall < MaxSetups
  /\ kcall' = kcall + 1
  /\ pool_id' = 0
  /\ kpc' = "find"
  /\ UNCHANGED <<pools, kret>>

\* _find_existing_pool returns the first matching pool
FindExistingPoolFound ==
  /\ kpc = "find"
  /\ Matching # {}
  /\ pool_id' = CHOOSE i \in Matching : \A j \in Matching : i <= j
  /\ kpc' = "auth"
  /\ UNCHANGED <<pools, kcall, kret>>

\* _find_existing_pool returns (None, None)
FindExistingPoolNone ==
  /\ kpc = "find"
  /\ Matching = {}
  /\ kpc' = "create_pool"
  /\ UNCHANGED <<pools, kcall, pool_id, kret>>

\* _create_user_pool: create_user_pool (names need not be unique)
CreateUserPool ==
  /\ kpc = "create_pool"
  /\ pools' = Append(pools, Pool(POOL_NAME, FALSE, "none"))
  /\ pool_id' = Len(pools) + 1
  /\ kpc' = "create_client"
  /\ UNCHANGED <<kcall, kret>>

\* _create_user_pool: create_user_pool_client
CreateUserPoolClient ==
  /\ kpc = "create_client"
  /\ pools' = [pools EXCEPT ![pool_id].client = TRUE]
  /\ kpc' = "create_user"
  /\ UNCHANGED <<kcall, pool_id, kret>>

\* _create_user_pool: admin_create_user with a temporary password
AdminCreateUser ==
  /\ kpc = "create_user"
  /\ pools' = [pools EXCEPT ![pool_id].user = "temporary"]
  /\ kpc' = "set_password"
  /\ UNCHANGED <<kcall, pool_id, kret>>

\* _create_user_pool: admin_set_user_password(Permanent=True)
AdminSetUserPassword ==
  /\ kpc = "set_password"
  /\ pools' = [pools EXCEPT ![pool_id].user = "permanent"]
  /\ kpc' = "auth"
  /\ UNCHANGED <<kcall, pool_id, kret>>

\* _authenticate_user succeeds: return config
AuthenticateUser ==
  /\ kpc = "auth"
  /\ pools[pool_id].user = "permanent"
  /\ \E t \in Tokens :
       kret' = [kret EXCEPT ![kcall] = [status |-> "config", pool_id |-> pool_id,
                                        bearer_token |-> t]]
  /\ kpc' = "idle"
  /\ UNCHANGED <<pools, kcall, pool_id>>

\* any Cognito call raises: except Exception -> return None
CognitoCallFails ==
  /\ kpc \in {"find", "create_pool", "create_client", "create_user",
               "set_password", "auth"}
  /\ kret' = [kret EXCEPT ![kcall] = NoConfig("None")]
  /\ kpc' = "idle"
  /\ UNCHANGED <<pools, kcall, pool_id>>

CogNext ==
  \/ SetupCognitoUserPool
  \/ FindExistingPoolFound \/ FindExistingPoolNone
  \/ CreateUserPool \/ CreateUserPoolClient
  \/ AdminCreateUser \/ AdminSetUserPassword
  \/ AuthenticateUser
  \/ CognitoCallFails

CogIdle ==
  /\ pools = <<>>
  /\ kpc = "off"
  /\ kcall = 0
  /\ pool_id = 0
  /\ kret = [c \in 1..(MaxSetups + 1) |-> NoConfig("none")]

\* ------------------------------------------- policy document builders
MaxDocs == 2        \* documents computed in one run of the builders

Regions == {REGION, "eu-west-1"}
Accounts == {ACCOUNT_ID, "210987654321"}
AgentNames == {AGENT_NAME, MCP_AGENT_NAME}

PolInit ==
  /\ doclog = <<>>
  /\ stored \in {NoDoc, EditedDoc}

Computed(fn, args, doc) ==
  doclog' = Append(doclog, [fn |-> fn, args |-> args, doc |-> doc,
                            seen |-> stored])

\* Agent deployment: _get_role_policy, json.dumps, put_role_policy
CallGetRolePolicy ==
  /\ Len(doclog) < MaxDocs
  /\ \E region \in Regions, account_id \in Accounts, agent_name \in AgentNames :
       /\ Computed("Agent._get_role_policy", <<region, account_id, agent_name>>,
                   GetRolePolicy(region, account_id, agent_name))
       /\ stored' = JsonDumps(GetRolePolicy(region, account_id, agent_name))

\* Agent deployment: _get_assume_role_policy
CallGetAssumeRolePolicy ==
  /\ Len(doclog) < MaxDocs
  /\ \E region \in Regions, account_id \in Accounts :
       Computed("Agent._get_assume_role_policy", <<region, account_id>>,
                GetAssumeRolePolicy(region, account_id))
  /\ UNCHANGED stored

\* MCP deployment: _get_role_policy, json.dumps, put_role_policy
CallMcpGetRolePolicy ==
  /\ Len(doclog) < MaxDocs
  /\ \E region \in Regions, account_id \in Accounts, agent_name \in AgentNames :
       /\ Computed("MCP._get_role_policy", <<region, account_id, agent_name>>,
                   McpGetRolePolicy(region, account_id, agent_name))
       /\ stored' = JsonDumps(McpGetRolePolicy(region, account_id, agent_name))

\* the stored policy is edited from outside between two calls
StoredPolicyEdited ==
  /\ stored # EditedDoc
  /\ stored' = EditedDoc
  /\ UNCHANGED doclog

PolNext ==
  \/ CallGetRolePolicy
  \/ CallGetAssumeRolePolicy
  \/ CallMcpGetRolePolicy
  \/ StoredPolicyEdited

PolIdle ==
  /\ doclog = <<>>
  /\ stored = NoDoc

\* ------------------------------------------------ endpoint construction
MaxArnLen == 3      \* characters of an agent ARN

\* texts are sequences of characters; a literal of the source is one element
ArnChars == {":", "/", "a", "%"}

Arns == UNION {[1..n -> ArnChars] : n \in 0..MaxArnLen}

NoUrl == <<"<no url>">>

RECURSIVE Replace(_, _, _)
\* str.replace(old, new) for a one-character old
Replace(s, old, new) ==
  IF s = <<>> THEN <<>>
  ELSE (IF Head(s) = old THEN new ELSE <<Head(s)>>) \o Replace(Tail(s), old, new)

\* agent_arn.replace(':', '%3A').replace('/', '%2F')
EncodeArn(arn_text) ==
  Replace(Replace(arn_text, ":", <<"%", "3", "A">>), "/", <<"%", "2", "F">>)

\* the f-string of create_streamable_http_transport
TransportUrl(arn_text, region) ==
  <<"https://bedrock-agentcore.", region, ".amazonaws.com/runtimes/">>
    \o EncodeArn(arn_text) \o <<"/invocations?qualifier=DEFAULT">>

AGENTCORE_URL_TEMPLATE ==
  <<"https://bedrock-agentcore.", "{region}", ".amazonaws.com/runtimes/",
    "{encoded_arn}", "/invocations?qualifier=DEFAULT">>

RECURSIVE Format(_, _, _)
\* AGENTCORE_URL_TEMPLATE.format(region=..., encoded_arn=...)
Format(template, region, encoded_arn) ==
  IF template = <<>> THEN <<>>
  ELSE (CASE Head(template) = "{region}" -> <<region>>
          [] Head(template) = "{encoded_arn}" -> encoded_arn
          [] OTHER -> <<Head(template)>>)
       \o Format(Tail(template), region, encoded_arn)

\* faulty variant: only the colons are encoded
BuildMcpUrl_colons_only(arn_text, region) ==
  Format(AGENTCORE_URL_TEMPLATE, region,
         Replace(arn_text, ":", <<"%", "3", "A">>))

\* _build_mcp_url
BuildMcpUrl(arn_text, region) ==
  Format(AGENTCORE_URL_TEMPLATE, region, EncodeArn(arn_text))

\* _get_request_headers
GetRequestHeaders(bearer_token) == "Bearer " \o bearer_token

UrlInit ==
  /\ agent_arn \in Arns
  /\ uregion \in Regions
  /\ utoken \in Tokens \cup {""}
  /\ agent_url = NoUrl
  /\ agent_hdr = NoHeader
  /\ mcp_url = NoUrl
  /\ mcp_hdr = NoHeader

\* create_streamable_http_transport: mcp_url and headers
CreateStreamableHttpTransport ==
  /\ agent_url = NoUrl
  /\ agent_url' = TransportUrl(agent_arn, uregion)
  /\ agent_hdr' = AuthHeader(utoken)
  /\ UNCHANGED <<agent_arn, uregion, utoken, mcp_url, mcp_hdr>>

\* test_mcp_connection: _validate_credentials, _build_mcp_url,
\* _get_request_headers
TestMcpConnection ==
  /\ mcp_url = NoUrl
  /\ agent_arn # <<>>
  /\ utoken # ""
  /\ mcp_url' = BuildMcpUrl(agent_arn, uregion)
  /\ mcp_hdr' = GetRequestHeaders(utoken)
  /\ UNCHANGED <<agent_arn, uregion, utoken, agent_url, agent_hdr>>

UrlNext == CreateStreamableHttpTransport \/ TestMcpConnection

UrlIdle ==
  /\ agent_arn = <<>>
  /\ uregion = REGION
  /\ utoken = ""
  /\ agent_url = NoUrl
  /\ agent_hdr = NoHeader
  /\ mcp_url = NoUrl
  /\ mcp_hdr = NoHeader

\* ----------------------------- two concurrent get_or_create_role runs
NumRuns == 2        \* provisioning runs started at the same time

Runs == 1..NumRuns

XAgentName == IF xdep = "Agent" THEN AGENT_NAME ELSE MCP_AGENT_NAME

XPolicyName == IF xdep = "Agent" THEN PolicyName(AGENT_NAME) ELSE MCP_POLICY_NAME

XDesiredPolicy ==
  IF xdep = "Agent"
    THEN JsonDumps(GetRolePolicy(REGION, ACCOUNT_ID, AGENT_NAME))
    ELSE McpDesiredPolicy

XArn == RoleArn("/", RoleName(XAgentName))

XAbsentRole == [exists |-> FALSE, inline |-> NoDoc, attached |-> {}]

\* create_role: a role with no inline policy and nothing attached
XNewRole == [exists |-> TRUE, inline |-> NoDoc, attached |-> {}]

RaceInit ==
  /\ xdep \in {"Agent", "MCP"}
  /\ xrole \in {XAbsentRole,
                [exists |-> TRUE, inline |-> XDesiredPolicy,
                 attached |-> IF xdep = "MCP"
                                THEN {AWS_SUPPORT_ACCESS_MANAGED_POLICY_ARN}
                                ELSE {}]}
  /\ xpc = [p \in Runs |-> "lookup"]
  /\ xlisted = [p \in Runs |-> {}]
  /\ xret = [p \in Runs |-> NoResult]

XGoto(p, position) ==
  /\ xpc' = [xpc EXCEPT ![p] = position]
  /\ UNCHANGED xret

XReturn(p) ==
  /\ xpc' = [xpc EXCEPT ![p] = "done"]
  /\ xret' = [xret EXCEPT ![p] = [status |-> "ok", value |-> XArn]]

\* an exception leaves get_or_create_role
XRaise(p, code) ==
  /\ xpc' = [xpc EXCEPT ![p] = "done"]
  /\ xret' = [xret EXCEPT ![p] = [status |-> "error", value |-> code]]

\* get_existing_role_arn; the MCP deployment returns the Arn it found
XLookup(p) ==
  /\ xpc[p] = "lookup"
  /\ IF ~xrole.exists THEN XGoto(p, "create")
     ELSE IF xdep = "Agent" THEN XGoto(p, "ensure")
     ELSE XReturn(p)
  /\ UNCHANGED <<xdep, xrole, xlisted>>

\* Agent: ensure_role_policy_updated, return existing_arn
XEnsure(p) ==
  /\ xpc[p] = "ensure"
  /\ xrole' = [xrole EXCEPT !.inline = XDesiredPolicy]
  /\ XReturn(p)
  /\ UNCHANGED <<xdep, xlisted>>

\* create_role: created, or EntityAlreadyExists (Agent: re-fetch; MCP:
\* _cleanup_existing_role)
XCreate(p) ==
  /\ xpc[p] = "create"
  /\ IF ~xrole.exists
       THEN xrole' = XNewRole /\ XGoto(p, "put")
       ELSE /\ UNCHANGED xrole
            /\ XGoto(p, IF xdep = "Agent" THEN "refetch" ELSE "cleanup")
  /\ UNCHANGED <<xdep, xlisted>>

\* Agent: get_role after EntityAlreadyExists, return response
XRefetch(p) ==
  /\ xpc[p] = "refetch"
  /\ XReturn(p)
  /\ UNCHANGED <<xdep, xrole, xlisted>>

\* MCP _cleanup_existing_role: list_role_policies
XCleanupList(p) ==
  /\ xpc[p] = "cleanup"
  /\ IF xrole.exists
       THEN /\ xlisted' = [xlisted EXCEPT ![p] =
                             IF xrole.inline = NoDoc THEN {} ELSE {XPolicyName}]
            /\ XGoto(p, "delete_policies")
       ELSE UNCHANGED xlisted /\ XRaise(p, "NoSuchEntity")
  /\ UNCHANGED <<xdep, xrole>>

\* MCP _cleanup_existing_role: delete_role_policy for each listed name
XCleanupPolicies(p) ==
  /\ xpc[p] = "delete_policies"
  /\ IF xlisted[p] = {}
       THEN UNCHANGED xrole /\ XGoto(p, "delete_role")
       ELSE IF xrole.exists /\ xrole.inline # NoDoc
         THEN xrole' = [xrole EXCEPT !.inline = NoDoc] /\ XGoto(p, "delete_role")
         ELSE UNCHANGED xrole /\ XRaise(p, "NoSuchEntity")
  /\ UNCHANGED <<xdep, xlisted>>

\* MCP _cleanup_existing_role: delete_role (refused while the role has
\* inline or attached policies)
XDeleteRole(p) ==
  /\ xpc[p] = "delete_role"
  /\ IF ~xrole.exists THEN UNCHANGED xrole /\ XRaise(p, "NoSuchEntity")
     ELSE IF xrole.inline # NoDoc \/ xrole.attached # {}
       THEN UNCHANGED xrole /\ XRaise(p, "DeleteConflict")
       ELSE xrole' = XAbsentRole /\ XGoto(p, "recreate")
  /\ UNCHANGED <<xdep, xlisted>>

\* MCP: the second create_role, inside the except clause
XRecreate(p) ==
  /\ xpc[p] = "recreate"
  /\ IF xrole.exists
       THEN UNCHANGED xrole /\ XRaise(p, "EntityAlreadyExists")
       ELSE xrole' = XNewRole /\ XGoto(p, "put")
  /\ UNCHANGED <<xdep, xlisted>>

\* put_role_policy after create_role (Agent: then return role)
XPut(p) ==
  /\ xpc[p] = "put"
  /\ IF ~xrole.exists
       THEN UNCHANGED xrole /\ XRaise(p, "NoSuchEntity")
       ELSE /\ xrole' = [xrole EXCEPT !.inline = XDesiredPolicy]
            /\ IF xdep = "Agent" THEN XReturn(p) ELSE XGoto(p, "add_list")
  /\ UNCHANGED <<xdep, xlisted>>

\* MCP _add_managed_policy_to_role: list_attached_role_policies
XAddList(p) ==
  /\ xpc[p] = "add_list"
  /\ IF ~xrole.exists THEN XRaise(p, "NoSuchEntity")
     ELSE IF AWS_SUPPORT_ACCESS_MANAGED_POLICY_ARN \in xrole.attached
       THEN XReturn(p)
       ELSE XGoto(p, "attach")
  /\ UNCHANGED <<xdep, xrole, xlisted>>

\* MCP _add_managed_policy_to_role: attach_role_policy
XAttach(p) ==
  /\ xpc[p] = "attach"
  /\ IF ~xrole.exists
       THEN UNCHANGED xrole /\ XRaise(p, "NoSuchEntity")
       ELSE /\ xrole' = [xrole EXCEPT !.attached =
                            @ \cup {AWS_SUPPORT_ACCESS_MANAGED_POLICY_ARN}]
            /\ XReturn(p)
  /\ UNCHANGED <<xdep, xlisted>>

RaceNext ==
  \E p \in Runs :
    \/ XLookup(p) \/ XEnsure(p) \/ XCreate(p) \/ XRefetch(p)
    \/ XCleanupList(p) \/ XCleanupPolicies(p) \/ XDeleteRole(p)
    \/ XRecreate(p) \/ XPut(p) \/ XAddList(p) \/ XAttach(p)

RaceIdle ==
  /\ xdep = "none"
  /\ xrole = XAbsentRole
  /\ xpc = [p \in Runs |-> "off"]
  /\ xlisted = [p \in Runs |-> {}]
  /\ xret = [p \in Runs |-> NoResult]

AuxIdle == RefIdle /\ CogIdle /\ PolIdle /\ UrlIdle /\ RaceIdle

\* ---------------------------------------------------------- specifications
ReqIdle ==
  /\ pc = "idle"
  /\ att = 0
  /\ out = <<>>
  /\ session = {}
  /\ secret = JsonDumps(SetupConfig(Token(1)))
  /\ secret_data = <<>>
  /\ attempts = 0
  /\ refreshes = 0
  /\ writes = 0
  /\ hdr = [k \in 1..2 |-> NoHeader]
  /\ fail = [k \in 1..2 |-> NoMsg]
  /\ rerr = NoMsg
  /\ rread = <<>>
  /\ issued = NoToken
  /\ events = 0
  /\ escaped = {}
  /\ secret0 = secret

RoleIdle ==
  /\ role = AbsentRole
  /\ rpc = "off"
  /\ call = 0
  /\ arn = NoArn
  /\ ret = [c \in 1..(MaxCalls + 1) |-> NoResult]
  /\ creates = [c \in 1..(MaxCalls + 1) |-> 0]
  /\ exists_err = {}
  /\ refetches = [c \in 1..(MaxCalls + 1) |-> 0]
  /\ other = "none"
  /\ role0 = role
  /\ calllog = [c \in 1..(MaxCalls + 1) |-> NoCallLog]

Init == ReqInit /\ RoleIdle /\ McpIdle /\ AuxIdle

Next == ReqNext /\ UNCHANGED <<rolevars, mcpvars, auxvars>>

Spec == Init /\ [][Next]_vars

\* every external call of the request eventually returns or fails
SpecLive == Init /\ [][Next]_vars /\ WF_vars(Next)

InitRole == RoleInit /\ ReqIdle /\ McpIdle /\ AuxIdle

NextRole == RoleNext /\ UNCHANGED <<reqvars, mcpvars, auxvars>>

SpecRole == InitRole /\ [][NextRole]_vars

InitMcp == McpInit /\ ReqIdle /\ RoleIdle /\ AuxIdle

NextMcp == McpNext /\ UNCHANGED <<reqvars, rolevars, auxvars>>

SpecMcp == InitMcp /\ [][NextMcp]_vars

\* either deployment's reconciler
InitReconcilers == InitRole \/ InitMcp

NextReconcilers == NextRole \/ NextMcp

SpecReconcilers == InitReconcilers /\ [][NextReconcilers]_vars

\* the core of the program at rest: no request, no provisioning run
CoreIdle == ReqIdle /\ RoleIdle /\ McpIdle

corevars == <<reqvars, rolevars, mcpvars>>

\* refresh_token called by concurrent requests
InitRefresh == RefInit /\ CoreIdle /\ CogIdle /\ PolIdle /\ UrlIdle /\ RaceIdle

NextRefresh ==
  RefNext /\ UNCHANGED <<corevars, cogvars, polvars, urlvars, racevars>>

SpecRefresh == InitRefresh /\ [][NextRefresh]_vars

\* setup_cognito_user_pool called repeatedly
InitCognito == CogInit /\ CoreIdle /\ RefIdle /\ PolIdle /\ UrlIdle /\ RaceIdle

NextCognito ==
  CogNext /\ UNCHANGED <<corevars, refvars, polvars, urlvars, racevars>>

SpecCognito == InitCognito /\ [][NextCognito]_vars

\* the policy document builders called with arguments of all kinds
InitPolicy == PolInit /\ CoreIdle /\ RefIdle /\ CogIdle /\ UrlIdle /\ RaceIdle

NextPolicy ==
  PolNext /\ UNCHANGED <<corevars, refvars, cogvars, urlvars, racevars>>

SpecPolicy == InitPolicy /\ [][NextPolicy]_vars

\* the Agent and the MCP client test build their endpoint
InitUrl == UrlInit /\ CoreIdle /\ RefIdle /\ CogIdle /\ PolIdle /\ RaceIdle

NextUrl ==
  UrlNext /\ UNCHANGED <<corevars, refvars, cogvars, polvars, racevars>>

SpecUrl == InitUrl /\ [][NextUrl]_vars

\* two provisioning runs of one deployment, started together
InitRace == RaceInit /\ CoreIdle /\ RefIdle /\ CogIdle /\ PolIdle /\ UrlIdle

NextRace ==
  RaceNext /\ UNCHANGED <<corevars, refvars, cogvars, polvars, urlvars>>

SpecRace == InitRace /\ [][NextRace]_vars

\* ------------------------------------------------------------- claims
Last(q) == q[Len(q)]

StoredToken(s) == GetKey(JsonLoads(s), "bearer_token")

BundleKeys(d) == {d[i][1] : i \in 1..Len(d)}

\* C1: a request starts at most two attempts and at most one refresh; when
\* Attempt1 and Attempt2 both fail with a CredentialExpired error the request
\* is over with exactly one error item (no third attempt, no second refresh).
C1_BoundedRetry ==
  /\ attempts <= 2
  /\ refreshes <= 1
  /\ (IsCredentialExpired(fail[1]) /\ IsCredentialExpired(fail[2]))
       => /\ pc = "done"
          /\ Cardinality(Errors) = 1
          /\ Last(out).kind = "error"

C1_Witness ==
  /\ IsCredentialExpired(fail[1])
  /\ IsCredentialExpired(fail[2])
  /\ attempts = 2
  /\ pc = "done"

\* C2: Attempt2 is started exactly when the refresh has written the secret,
\* and once; the header Attempt2 builds carries the token that refresh
\* stored, read from the Secret Store after the write, so it differs from
\* Attempt1's header whenever the refresh changed the stored token.
C2_FreshTransport ==
  /\ (writes = 1) <=> (attempts = 2)
  /\ writes <= 1
  /\ hdr[2] # NoHeader
       => /\ writes = 1
          /\ hdr[2] = AuthHeader(issued)
          /\ hdr[2] = AuthHeader(StoredToken(secret))
  /\ (hdr[1] # NoHeader /\ hdr[2] # NoHeader /\ issued # StoredToken(secret0))
       => hdr[2] # hdr[1]

C2_Witness ==
  /\ IsCredentialExpired(fail[1])
  /\ hdr[1] # NoHeader
  /\ hdr[2] # NoHeader
  /\ hdr[2] # hdr[1]

\* C3: when Attempt1 fails with an OtherFailure error there is no refresh and
\* no second attempt, the secret is unchanged, and the stream ends with
\* exactly one error item carrying Attempt1's message.
C3_OtherFailureTerminal ==
  (fail[1] # NoMsg /\ ~IsCredentialExpired(fail[1]))
    => /\ refreshes = 0
       /\ attempts = 1
       /\ writes = 0
       /\ secret = secret0
       /\ pc = "done"
       /\ Cardinality(Errors) = 1
       /\ Last(out) = ErrorItem(fail[1], "stream_error")

C3_Witness ==
  /\ fail[1] # NoMsg
  /\ ~IsCredentialExpired(fail[1])
  /\ Len(out) > 1
  /\ pc = "done"

\* C4: a failed refresh starts no Attempt2 and the single error item carries
\* the refresh error's message; when the refresh succeeded and Attempt2
\* fails, the error item carries Attempt2's message.
C4_ErrorOrigin ==
  /\ rerr # NoMsg
       => /\ attempts = 1
          /\ pc = "done"
          /\ Cardinality(Errors) = 1
          /\ Last(out) = ErrorItem(rerr, "stream_error")
  /\ fail[2] # NoMsg
       => /\ writes = 1
          /\ pc = "done"
          /\ Cardinality(Errors) = 1
          /\ Last(out) = ErrorItem(fail[2], "stream_error")

C4_Witness ==
  /\ rerr # NoMsg
  /\ rerr # fail[1]
  /\ pc = "done"

C4_WitnessAttempt2 ==
  /\ fail[2] # NoMsg
  /\ fail[2] # fail[1]
  /\ pc = "done"

\* C5: no exception ever leaves run_with_retry or strands_agent_bedrock;
\* every terminal failure (of the entrypoint's preparation, of the last
\* attempt, of the refresh) is the error item that ends a closed stream.
TerminalFailure ==
  \/ attempts = 0 /\ pc = "done"
  \/ fail[1] # NoMsg /\ ~IsCredentialExpired(fail[1])
  \/ fail[2] # NoMsg
  \/ rerr # NoMsg

C5_NoRaisedFault ==
  /\ escaped = {}
  /\ pc \in {"entry", "open", "connect", "list", "stream", "refresh_read",
             "refresh_auth", "refresh_write", "done", "abandoned"}
  /\ TerminalFailure
       => /\ pc = "done"
          /\ Len(out) > 0
          /\ Last(out).kind = "error"
          /\ Last(out).type \in {"stream_error", "entrypoint_error"}

C5_Witness ==
  /\ rerr # NoMsg
  /\ pc = "done"
  /\ Last(out).kind = "error"

\* C6: the output stream of a completed request is never empty.
C6_NeverEmpty ==
  pc = "done" => Len(out) > 0

\* C7: when the last attempt executed failed after chunks were delivered,
\* the final item of the closed stream is an error item.
C7_NoSilentTruncation ==
  (/\ pc = "done"
   /\ attempts > 0
   /\ fail[attempts] # NoMsg
   /\ \E i \in 1..Len(out) : out[i].kind = "data")
    => Last(out).kind = "error"

C7_Witness ==
  /\ pc = "done"
  /\ fail[2] # NoMsg
  /\ Chunks(2) > 0

\* C8: a successful refresh writes back the bundle it read with only
\* bearer_token changed; a failed refresh writes nothing.
C8_RefreshFrame ==
  /\ writes = 0 => secret = secret0
  /\ rerr # NoMsg => (writes = 0 /\ secret = secret0)
  /\ writes = 1
       => /\ rread = JsonLoads(secret0)
          /\ BundleKeys(JsonLoads(secret)) = BundleKeys(rread) \cup {"bearer_token"}
          /\ StoredToken(secret) = issued
          /\ \A k \in BundleKeys(rread) \ {"bearer_token"} :
               GetKey(JsonLoads(secret), k) = GetKey(rread, k)

C8_Witness ==
  /\ writes = 1
  /\ secret # secret0
  /\ Len(secret) > 1

C8_WitnessRejected ==
  /\ rerr = <<"NotAuthorizedException">>
  /\ pc = "done"

\* C9: two get_or_create_role calls in sequence against a role nobody else
\* touches return the same identifier and leave the trust policy and the
\* inline policy equal to the desired documents.
C9_Idempotent ==
  (/\ call = 2
   /\ rpc = "idle"
   /\ other = "none"
   /\ ret[1].status = "ok"
   /\ ret[2].status = "ok")
    => /\ ret[1].value = ret[2].value
       /\ role.assume = JsonDumps(GetAssumeRolePolicy(REGION, ACCOUNT_ID))
       /\ role.inline[PolicyName(AGENT_NAME)] =
            JsonDumps(GetRolePolicy(REGION, ACCOUNT_ID, AGENT_NAME))

InjectedFaults == LookupErrors

C11_McpRaceTolerated ==
  \A c \in mexists_err :
    /\ mret[c].status = "error" => mret[c].value \in InjectedFaults
    /\ mret[c].status = "ok" => mret[c].value # NoArn

\* C12: after every successful return of the Agent's get_or_create_role
\* (role found, created, or creation raced) the inline policy stored under
\* the fixed name is the desired document.
C12_WholesaleReplacement ==
  \A c \in 1..MaxCalls :
    ret[c].status = "ok"
      => role.inline[PolicyName(AGENT_NAME)] =
           JsonDumps(GetRolePolicy(REGION, ACCOUNT_ID, AGENT_NAME))

\* C13: after every successful return of the MCP deployment's
\* get_or_create_role the role carries the desired inline policy under
\* POLICY_NAME and has AWSSupportAccess attached.
C13_McpConverges ==
  \A c \in 1..MaxCalls :
    mret[c].status = "ok"
      => /\ mrole.inline[MCP_POLICY_NAME] = McpDesiredPolicy
         /\ AWS_SUPPORT_ACCESS_MANAGED_POLICY_ARN \in mrole.attached

\* C14: in both deployments a lookup that finds the role is followed by no
\* create_role; a lookup answered NoSuchEntity leads to create_role; a lookup
\* failing otherwise ends the call with that very error, with no create_role
\* and no policy write.
LookupRule(log, results, created, running, position) ==
  \A c \in 1..MaxCalls :
    /\ log[c].lookup = "found" => created[c] = 0
    /\ log[c].lookup = "NoSuchEntity"
         => \/ running = c /\ position = "create"
            \/ created[c] >= 1
    /\ log[c].lookup \in LookupErrors
         => /\ results[c] = [status |-> "error", value |-> log[c].lookup]
            /\ created[c] = 0
            /\ log[c].puts = 0

C14_LookupStep ==
  /\ LookupRule(calllog, ret, creates, call, rpc)
  /\ LookupRule(mcalllog, mret, mcreates, mcall, mpc)

C14_Witness ==
  /\ \E c \in 1..MaxCalls : calllog[c].lookup \in LookupErrors
  /\ \E c \in 1..MaxCalls : calllog[c].lookup = "NoSuchEntity" /\ creates[c] = 1

C14_WitnessMcp ==
  /\ \E c \in 1..MaxCalls : mcalllog[c].lookup \in LookupErrors
  /\ \E c \in 1..MaxCalls : mcalllog[c].lookup = "found" /\ mret[c].status = "ok"

\* C15: every _add_managed_policy_to_role call leaves the attached set equal
\* to the set it found plus the policy, and issues attach_role_policy exactly
\* when the policy was not in the set it found.
C15_AttachIdempotent ==
  \A i \in 1..Len(addlog) :
    /\ addlog[i].after = addlog[i].before \cup {addlog[i].policy}
    /\ addlog[i].issued <=> addlog[i].policy \notin addlog[i].before
    /\ \A j \in 1..Len(addlog) :
         (i < j /\ addlog[i].policy = addlog[j].policy) => ~addlog[j].issued

C15_Witness ==
  \E i, j \in 1..Len(addlog) :
    /\ i < j
    /\ addlog[i].policy = addlog[j].policy
    /\ addlog[i].issued
    /\ addlog[i].before # {}

\* C16: no attempt builds an Authorization header from an absent or empty
\* bearer token.
C16_NoEmptyToken ==
  \A k \in 1..2 : hdr[k] # AuthHeader("")

\* C17: a failure to build the transport ends the request with one error
\* item, no refresh and no second attempt.
BuildFailed(k) == fail[k] # NoMsg /\ hdr[k] = NoHeader

C17_BuildFailureFatal ==
  BuildFailed(1)
    => /\ refreshes = 0
       /\ attempts = 1
       /\ pc = "done"
       /\ Cardinality(Errors) = 1

\* C18: a failure of Attempt1, wherever it is raised, leads to the refresh
\* exactly when its message contains "client initialization failed" in any
\* letter case.
ExpiredMessages ==
  { <<"the", "client", "initialization", "failed">>,
    <<"Client", "Initialization", "Failed">> }

C18_Classification ==
  /\ fail[1] = NoMsg => refreshes = 0
  /\ fail[1] # NoMsg => (refreshes = 1 <=> fail[1] \in ExpiredMessages)
  /\ fail[1] # NoMsg
       => (fail[1] \in ExpiredMessages
             <=> \E i \in 1..Len(fail[1]) - 2 :
                   /\ fail[1][i] \in {"client", "Client"}
                   /\ fail[1][i + 1] \in {"initialization", "Initialization"}
                   /\ fail[1][i + 2] \in {"failed", "Failed"})

C18_Witness ==
  /\ fail[1] = <<"Client", "Initialization", "Failed">>
  /\ Chunks(1) > 0
  /\ refreshes = 1

C18_WitnessOther ==
  /\ fail[1] = <<"client", "failed", "initialization">>
  /\ hdr[1] # NoHeader
  /\ Chunks(1) = 0
  /\ refreshes = 0

\* C19: at most one session is open at any time; none is open during the
\* refresh, while Attempt2 is being set up, or once the stream has closed.
C19_OneSession ==
  /\ Cardinality(session) <= 1
  /\ session \subseteq {att}
  /\ pc \in {"entry", "open", "connect", "refresh_read", "refresh_auth",
             "refresh_write", "done"} => session = {}

C19_Witness ==
  /\ session = {2}
  /\ Chunks(1) > 0

\* C20: when the consumer stops consuming, the session of the attempt in
\* progress is released and no refresh, no further attempt and no error item
\* follow.
C20_Abandonment ==
  pc = "abandoned"
    => /\ session = {}
       /\ Errors = {}
       /\ attempts = att
       /\ refreshes = (IF att = 2 THEN 1 ELSE 0)
       /\ att > 0 => fail[att] = NoMsg

C20_Witness ==
  /\ pc = "abandoned"
  /\ att = 2
  /\ Chunks(2) > 0

\* C24: the output stream holds at most one error item and it is the last
\* item; its type is "stream_error" when run_with_retry emitted it and
\* "entrypoint_error" exactly when the failure was raised before
\* run_with_retry was entered.
C24_ErrorTerminal ==
  /\ Cardinality(Errors) <= 1
  /\ \A i \in Errors :
       /\ i = Len(out)
       /\ out[i].type \in {"stream_error", "entrypoint_error"}
       /\ out[i].type = "entrypoint_error" <=> attempts = 0
       /\ out[i].type = "stream_error" <=> attempts > 0

C24_Witness ==
  /\ Errors # {}
  /\ Chunks(1) > 0
  /\ Chunks(2) > 0
  /\ Last(out).type = "stream_error"

C24_WitnessEntrypoint ==
  /\ Errors # {}
  /\ Last(out).type = "entrypoint_error"

\* C25: when every external call returns or fails and each attempt's chunk
\* sequence is finite, the request eventually closes its output stream,
\* having started at most two attempts and one refresh.
C25_Termination ==
  <>(pc \in {"done", "abandoned"} /\ attempts <= 2 /\ refreshes <= 1)

C25_Witness ==
  /\ pc = "done"
  /\ attempts = 2
  /\ refreshes = 1
  /\ Chunks(2) = MaxChunks

\* C26: the content chunks of a stream that closed without an error item
\* are the chunks of one single attempt, in order.
C26_SingleAttemptChunks ==
  (pc = "done" /\ Errors = {})
    => \E k \in 1..2 :
         \A i \in 1..Len(out) : out[i].att = k /\ out[i].idx = i

\* C28: no step of a reconciliation run deletes an existing role, changes its
\* identifier or trust policy, touches an inline policy stored under another
\* name, or detaches a managed policy.
RoleFrame(r, r2, policy_name, names) ==
  r.exists
    => /\ r2.exists
       /\ r2.arn = r.arn
       /\ r2.assume = r.assume
       /\ \A n \in names \ {policy_name} : r2.inline[n] = r.inline[n]

C28_Frame ==
  [][/\ RoleFrame(role, role', PolicyName(AGENT_NAME), PolicyNames)
     /\ RoleFrame(mrole, mrole', MCP_POLICY_NAME, McpPolicyNames)
     /\ mrole.exists => mrole.attached \subseteq mrole'.attached]_vars

\* C29: when the first call created the role and failed at put_role_policy,
\* a second call that returns successfully leaves the desired inline policy
\* on the role (both deployments).
PartialRun(log, results) ==
  /\ log[1].lookup = "NoSuchEntity"
  /\ log[1].puts = 1
  /\ results[1].status = "error"

C29_Recovery ==
  /\ (PartialRun(calllog, ret) /\ ret[2].status = "ok")
       => role.inline[PolicyName(AGENT_NAME)] =
            JsonDumps(GetRolePolicy(REGION, ACCOUNT_ID, AGENT_NAME))
  /\ (PartialRun(mcalllog, mret) /\ mret[2].status = "ok")
       => mrole.inline[MCP_POLICY_NAME] = McpDesiredPolicy

\* C21: under every interleaving of concurrent refreshes the stored bundle
\* is the one written by the call served last; its client_id, USERNAME and
\* PASSWORD are the initial ones and its bearer_token is the initial token
\* or a token the Token Issuer returned to one of the calls.
IdentityKeys == {"client_id", "AuthParameters.USERNAME", "AuthParameters.PASSWORD"}

IssuedTokens == {rftoken[p] : p \in Refreshers} \ {NoToken}

C21_LastWriterWins ==
  /\ rflast = 0 => csecret = csecret0
  /\ rflast # 0 => csecret = JsonDumps(rfdata[rflast])
  /\ \A k \in IdentityKeys :
       /\ HasKey(JsonLoads(csecret), k)
       /\ GetKey(JsonLoads(csecret), k) = GetKey(JsonLoads(csecret0), k)
  /\ IF HasKey(JsonLoads(csecret), "bearer_token")
       THEN \/ StoredToken(csecret) \in IssuedTokens
            \/ /\ HasKey(JsonLoads(csecret0), "bearer_token")
               /\ StoredToken(csecret) = StoredToken(csecret0)
       ELSE csecret = csecret0

C21_Witness ==
  /\ \A p \in Refreshers : rfpc[p] = "done"
  /\ rftoken[1] # rftoken[2]
  /\ rflast = 1
  /\ StoredToken(csecret) = rftoken[1]
  /\ GetKey(rfdata[1], "pool_id") = "pool"

\* C22: at most one user pool named POOL_NAME exists after any sequence of
\* setup_cognito_user_pool calls, failed ones included.
C22_NoDuplicatePool ==
  Cardinality({i \in 1..Len(pools) : pools[i].name = POOL_NAME}) <= 1

C23_WitnessMcp ==
  \E i, j \in 1..Len(doclog) :
    /\ i < j
    /\ doclog[i].fn = "MCP._get_role_policy"
    /\ doclog[j].fn = doclog[i].fn
    /\ doclog[i].args # doclog[j].args
    /\ doclog[i].doc # doclog[j].doc

\* C30: the endpoint URL embeds the ARN with every ':' written %3A and every
\* '/' written %2F, so that the locator segment holds no raw ':' or '/';
\* the Agent and the MCP client build the same URL for the same ARN and
\* region; the Authorization header is "Bearer " followed by the stored
\* token.
RECURSIVE Concat(_)
Concat(ss) == IF ss = <<>> THEN <<>> ELSE Head(ss) \o Concat(Tail(ss))

PercentCode(c) ==
  CASE c = ":" -> <<"%", "3", "A">>
    [] c = "/" -> <<"%", "2", "F">>
    [] OTHER -> <<c>>

ExpectedUrl ==
  <<"https://bedrock-agentcore.", uregion, ".amazonaws.com/runtimes/">>
    \o Concat([i \in 1..Len(agent_arn) |-> PercentCode(agent_arn[i])])
    \o <<"/invocations?qualifier=DEFAULT">>

Locator(url) == SubSeq(url, 4, Len(url) - 1)

C30_Endpoint ==
  /\ \A url \in {agent_url, mcp_url} \ {NoUrl} :
       /\ url = ExpectedUrl
       /\ \A i \in 1..Len(Locator(url)) : Locator(url)[i] \notin {":", "/"}
  /\ (agent_url # NoUrl /\ mcp_url # NoUrl) => agent_url = mcp_url
  /\ \A h \in {agent_hdr, mcp_hdr} \ {NoHeader} : h = "Bearer " \o utoken

C30_Witness ==
  /\ agent_url # NoUrl
  /\ mcp_url # NoUrl
  /\ agent_arn = <<":", "/", "%">>
  /\ utoken = Token(2)

\* C27: when two concurrent runs of get_or_create_role for one agent name
\* have both finished, neither has raised, both returned the same role
\* identifier, and the role exists with the desired inline policy.
C27_ConcurrentRuns ==
  (\A p \in Runs : xpc[p] = "done")
    => /\ \A p \in Runs : xret[p].status = "ok"
       /\ \A p, q \in Runs : xret[p].value = xret[q].value
       /\ xrole.exists
       /\ xrole.inline = XDesiredPolicy

====
